---- MODULE Spec2Model ----
(***************************************************************************)
(* WordpressThreeTierStack (lib/wordpress-app-stack.ts).                   *)
(*                                                                         *)
(* The constructor declares a graph of constructs, statement by statement. *)
(* The model follows it with a program counter, then lets a deployment     *)
(* orchestrator create the declared resources in any order that respects   *)
(* their references, and finally exercises the deployed configuration:     *)
(* viewer requests through the distribution or straight at the load        *)
(* balancer, TCP connections judged by the security groups, target-group   *)
(* health checks, and steps of the CPU target-tracking policy.             *)
(***************************************************************************)
EXTENDS Integers, Sequences, FiniteSets, TLC

VARIABLES
    pc,            \* position in the constructor, then "synthesized", "deployed"
    constructs,    \* ids of the constructs declared so far
    refs,          \* <<from, to>>: construct (or output) `from` references `to`
    props,         \* <<construct, field>> -> configured value
    ingress,       \* security group ingress rules [sg, peer, port]
    sgOf,          \* <<construct, sg>>: the construct's network interfaces are in sg
    environment,   \* container environment: <<name, token>>
    secrets,       \* container secrets: <<name, token>>
    targets,       \* target registrations [tg, service, port]
    outputs,       \* CfnOutputs: <<name, token>>
    created,       \* resources the orchestrator has created
    secretString,  \* secret construct -> generated secret string
    attrs,         \* <<resource, attribute>> -> provider-assigned value
    placement,     \* resource -> subnets it was placed in
    plainEnv,      \* the task definition's environment as stored in plaintext
    exports,       \* output name -> exported value
    desiredCount,  \* the service's desired task count
    cache,         \* paths the distribution holds a cached response for
    net            \* the request, connection or health check in flight, or Idle

vars == <<pc, constructs, refs, props, ingress, sgOf, environment, secrets,
          targets, outputs, created, secretString, attrs, placement, plainEnv,
          exports, desiredCount, cache, net>>

synthVars == <<constructs, refs, props, ingress, sgOf, environment, secrets,
               targets, outputs>>
deployVars == <<created, secretString, attrs, placement, plainEnv, exports>>
runVars == <<desiredCount, cache, net>>

----------------------------------------------------------------------------
(* Bounds of the model *)

NumClients == 2     \* internet addresses that send traffic
NumPasswords == 2   \* strings the secret generator can produce

Clients == 1..NumClients
Passwords == 1..NumPasswords

----------------------------------------------------------------------------
(* Construct ids *)

vpc == "WordpressVPC"
natGateway == "NatGateway"
albSg == "AlbSecurityGroup"
ecsSg == "EcsSecurityGroup"
dbSg == "DbSecurityGroup"
dbPassword == "DBPassword"
dbInstance == "WordpressDatabase"
cluster == "WordpressCluster"
alb == "WordpressALB"
httpListener == "HttpListener"
taskRole == "WordpressTaskRole"
taskDefinition == "WordpressTaskDef"
wordpressContainer == "WordpressContainer"
wordpressService == "WordpressService"
targetGroup == "WordpressTargetGroup"
scaling == "TaskCountTarget"
cpuScaling == "CpuScaling"
distribution == "WordpressDistribution"

(* Values of the construct library the source names *)

anyIpv4 == "0.0.0.0/0"
PUBLIC == "PUBLIC"
PRIVATE_WITH_EGRESS == "PRIVATE_WITH_EGRESS"
PRIVATE_ISOLATED == "PRIVATE_ISOLATED"
HTTP_ONLY == "HTTP_ONLY"
REDIRECT_TO_HTTPS == "REDIRECT_TO_HTTPS"
ALLOW_ALL == {"GET", "HEAD", "OPTIONS", "PUT", "PATCH", "POST", "DELETE"}

(* Tokens: what a configuration field holds before deployment resolves it *)

Lit(s) == <<"lit", s>>
Attr(c, a) == <<"attr", c, a>>
fromSecret(c) == <<"secret", c>>

----------------------------------------------------------------------------
(* The constructor *)

Idle == [kind |-> "idle", src |-> <<"none", "none", 0>>, entry |-> "none",
         scheme |-> "none", at |-> "none", proto |-> "none", port |-> 0,
         method |-> "none", path |-> "none", hops |-> <<>>, status |-> "none"]

Init ==
    /\ pc = "vpc"
    /\ constructs = {}
    /\ refs = {}
    /\ props = << >>
    /\ ingress = {}
    /\ sgOf = {}
    /\ environment = {}
    /\ secrets = {}
    /\ targets = {}
    /\ outputs = {}
    /\ created = {}
    /\ secretString = << >>
    /\ attrs = << >>
    /\ placement = << >>
    /\ plainEnv = {}
    /\ exports = << >>
    /\ desiredCount = 0
    /\ cache = {}
    /\ net = Idle

(* One statement of the constructor: at `at`, add to construct `owner` the
   references `to` and the configuration `fields` (kept under `id`), and go
   on to `next`. *)
Configure(at, next, owner, id, to, fields) ==
    /\ pc = at
    /\ pc' = next
    /\ constructs' = constructs \cup {owner}
    /\ refs' = refs \cup {<<owner, t>> : t \in to}
    /\ props' = [k \in {<<id, f>> : f \in DOMAIN fields} |-> fields[k[2]]] @@ props

Declare(at, next, id, to, fields) == Configure(at, next, id, id, to, fields)

addIngressRule(sg, peer, port) == [sg |-> sg, peer |-> peer, port |-> port]

DeclareVpc ==
    /\ Declare("vpc", "albSg", vpc, {}, [maxAzs |-> 2, natGateways |-> 1])
    /\ UNCHANGED <<ingress, sgOf, environment, secrets, targets, outputs>>
    /\ UNCHANGED <<deployVars, runVars>>

DeclareAlbSg ==
    /\ Declare("albSg", "ecsSg", albSg, {vpc}, [allowAllOutbound |-> TRUE])
    /\ ingress' = ingress \cup {addIngressRule(albSg, anyIpv4, 80),
                                addIngressRule(albSg, anyIpv4, 443)}
    /\ UNCHANGED <<sgOf, environment, secrets, targets, outputs>>
    /\ UNCHANGED <<deployVars, runVars>>

(* The ECS security group opened to any address *)
DeclareEcsSg_AnyPeer ==
    /\ Declare("ecsSg", "dbSg", ecsSg, {vpc, albSg}, [allowAllOutbound |-> TRUE])
    /\ ingress' = ingress \cup {addIngressRule(ecsSg, anyIpv4, 80)}
    /\ UNCHANGED <<sgOf, environment, secrets, targets, outputs>>
    /\ UNCHANGED <<deployVars, runVars>>

DeclareEcsSg ==
    /\ Declare("ecsSg", "dbSg", ecsSg, {vpc, albSg}, [allowAllOutbound |-> TRUE])
    /\ ingress' = ingress \cup {addIngressRule(ecsSg, albSg, 80)}
    /\ UNCHANGED <<sgOf, environment, secrets, targets, outputs>>
    /\ UNCHANGED <<deployVars, runVars>>

(* The database security group opened to any address *)
DeclareDbSg_AnyPeer ==
    /\ Declare("dbSg", "dbPassword", dbSg, {vpc, ecsSg}, [allowAllOutbound |-> TRUE])
    /\ ingress' = ingress \cup {addIngressRule(dbSg, anyIpv4, 3306)}
    /\ UNCHANGED <<sgOf, environment, secrets, targets, outputs>>
    /\ UNCHANGED <<deployVars, runVars>>

DeclareDbSg ==
    /\ Declare("dbSg", "dbPassword", dbSg, {vpc, ecsSg}, [allowAllOutbound |-> TRUE])
    /\ ingress' = ingress \cup {addIngressRule(dbSg, ecsSg, 3306)}
    /\ UNCHANGED <<sgOf, environment, secrets, targets, outputs>>
    /\ UNCHANGED <<deployVars, runVars>>

DeclareDbPassword ==
    /\ Declare("dbPassword", "dbInstance", dbPassword, {},
               [secretName |-> "wordpress-db-password",
                excludePunctuation |-> TRUE, passwordLength |-> 16])
    /\ UNCHANGED <<ingress, sgOf, environment, secrets, targets, outputs>>
    /\ UNCHANGED <<deployVars, runVars>>

DeclareDbInstance ==
    /\ Declare("dbInstance", "cluster", dbInstance, {vpc, dbSg, dbPassword},
               [engine |-> "mysql8.0", instanceType |-> "t3.small", vpc |-> vpc,
                subnetType |-> PRIVATE_WITH_EGRESS, databaseName |-> "wordpress",
                credentials |-> fromSecret(dbPassword), backupRetention |-> 7,
                deletionProtection |-> FALSE, storageEncrypted |-> TRUE])
    /\ sgOf' = sgOf \cup {<<dbInstance, dbSg>>}
    /\ UNCHANGED <<ingress, environment, secrets, targets, outputs>>
    /\ UNCHANGED <<deployVars, runVars>>

DeclareCluster ==
    /\ Declare("cluster", "alb", cluster, {vpc},
               [vpc |-> vpc, containerInsights |-> TRUE])
    /\ UNCHANGED <<ingress, sgOf, environment, secrets, targets, outputs>>
    /\ UNCHANGED <<deployVars, runVars>>

DeclareAlb ==
    /\ Declare("alb", "httpListener", alb, {vpc, albSg},
               [vpc |-> vpc, internetFacing |-> TRUE])
    /\ sgOf' = sgOf \cup {<<alb, albSg>>}
    /\ UNCHANGED <<ingress, environment, secrets, targets, outputs>>
    /\ UNCHANGED <<deployVars, runVars>>

(* The listener on another port than the one the distribution's origin uses *)
AddListener_8080 ==
    /\ Declare("httpListener", "taskRole", httpListener, {alb},
               [loadBalancer |-> alb, port |-> 8080, open |-> TRUE])
    /\ ingress' = ingress \cup
           {addIngressRule(m[2], anyIpv4, 8080) : m \in {n \in sgOf : n[1] = alb}}
    /\ UNCHANGED <<sgOf, environment, secrets, targets, outputs>>
    /\ UNCHANGED <<deployVars, runVars>>

(* alb.addListener: an open listener also admits any IPv4 address on its
   port in the load balancer's security groups. *)
AddListener ==
    /\ Declare("httpListener", "taskRole", httpListener, {alb},
               [loadBalancer |-> alb, port |-> 80, open |-> TRUE])
    /\ ingress' = ingress \cup
           {addIngressRule(m[2], anyIpv4, 80) : m \in {n \in sgOf : n[1] = alb}}
    /\ UNCHANGED <<sgOf, environment, secrets, targets, outputs>>
    /\ UNCHANGED <<deployVars, runVars>>

DeclareTaskRole ==
    /\ Declare("taskRole", "taskDefinition", taskRole, {},
               [assumedBy |-> "ecs-tasks.amazonaws.com"])
    /\ UNCHANGED <<ingress, sgOf, environment, secrets, targets, outputs>>
    /\ UNCHANGED <<deployVars, runVars>>

DeclareTaskDefinition ==
    /\ Declare("taskDefinition", "wordpressContainer", taskDefinition, {taskRole},
               [memoryLimitMiB |-> 2048, cpu |-> 1024, taskRole |-> taskRole])
    /\ UNCHANGED <<ingress, sgOf, environment, secrets, targets, outputs>>
    /\ UNCHANGED <<deployVars, runVars>>

(* taskDefinition.addContainer: the container is part of the task
   definition, which thereby references the database and the secret. *)
(* The password handed to the container through its environment map *)
AddContainer_PlaintextPassword ==
    /\ Configure("wordpressContainer", "portMappings", taskDefinition,
                 wordpressContainer, {dbInstance, dbPassword},
                 [image |-> "wordpress:latest", streamPrefix |-> "wordpress"])
    /\ environment' = environment \cup
           {<<"WORDPRESS_DB_HOST", Attr(dbInstance, "Endpoint.Address")>>,
            <<"WORDPRESS_DB_NAME", Lit("wordpress")>>,
            <<"WORDPRESS_DB_USER", Lit("admin")>>,
            <<"WORDPRESS_DB_PASSWORD", fromSecret(dbPassword)>>}
    /\ secrets' = secrets
    /\ UNCHANGED <<ingress, sgOf, targets, outputs>>
    /\ UNCHANGED <<deployVars, runVars>>

AddContainer ==
    /\ Configure("wordpressContainer", "portMappings", taskDefinition,
                 wordpressContainer, {dbInstance, dbPassword},
                 [image |-> "wordpress:latest", streamPrefix |-> "wordpress"])
    /\ environment' = environment \cup
           {<<"WORDPRESS_DB_HOST", Attr(dbInstance, "Endpoint.Address")>>,
            <<"WORDPRESS_DB_NAME", Lit("wordpress")>>,
            <<"WORDPRESS_DB_USER", Lit("admin")>>}
    /\ secrets' = secrets \cup {<<"WORDPRESS_DB_PASSWORD", fromSecret(dbPassword)>>}
    /\ UNCHANGED <<ingress, sgOf, targets, outputs>>
    /\ UNCHANGED <<deployVars, runVars>>

AddPortMappings ==
    /\ Configure("portMappings", "wordpressService", taskDefinition,
                 wordpressContainer, {}, [containerPort |-> 80])
    /\ UNCHANGED <<ingress, sgOf, environment, secrets, targets, outputs>>
    /\ UNCHANGED <<deployVars, runVars>>

(* The service placed in the public subnets with public addresses *)
DeclareService_Public ==
    /\ Declare("wordpressService", "targetGroup", wordpressService,
               {cluster, taskDefinition, ecsSg},
               [cluster |-> cluster, taskDefinition |-> taskDefinition,
                desiredCount |-> 2, subnetType |-> PUBLIC,
                assignPublicIp |-> TRUE, healthCheckGracePeriod |-> 60])
    /\ sgOf' = sgOf \cup {<<wordpressService, ecsSg>>}
    /\ UNCHANGED <<ingress, environment, secrets, targets, outputs>>
    /\ UNCHANGED <<deployVars, runVars>>

DeclareService ==
    /\ Declare("wordpressService", "targetGroup", wordpressService,
               {cluster, taskDefinition, ecsSg},
               [cluster |-> cluster, taskDefinition |-> taskDefinition,
                desiredCount |-> 2, subnetType |-> PRIVATE_WITH_EGRESS,
                assignPublicIp |-> FALSE, healthCheckGracePeriod |-> 60])
    /\ sgOf' = sgOf \cup {<<wordpressService, ecsSg>>}
    /\ UNCHANGED <<ingress, environment, secrets, targets, outputs>>
    /\ UNCHANGED <<deployVars, runVars>>

DeclareTargetGroup ==
    /\ Declare("targetGroup", "attach", targetGroup, {vpc},
               [vpc |-> vpc, port |-> 80, protocol |-> "HTTP", targetType |-> "IP",
                healthCheckPath |-> "/", healthCheckInterval |-> 30])
    /\ UNCHANGED <<ingress, sgOf, environment, secrets, targets, outputs>>
    /\ UNCHANGED <<deployVars, runVars>>

(* wordpressService.attachToApplicationTargetGroup: the service registers
   its tasks in the target group on the container's mapped port. *)
AttachToApplicationTargetGroup ==
    /\ pc = "attach"
    /\ pc' = "addTargetGroups"
    /\ refs' = refs \cup {<<wordpressService, targetGroup>>}
    /\ targets' = targets \cup
           {[tg |-> targetGroup, service |-> wordpressService,
             port |-> props[<<wordpressContainer, "containerPort">>]]}
    /\ UNCHANGED <<constructs, props, ingress, sgOf, environment, secrets, outputs>>
    /\ UNCHANGED <<deployVars, runVars>>

(* The target group made to reference the listener that references it *)
AddTargetGroups_Cyclic ==
    /\ pc = "addTargetGroups"
    /\ pc' = "scaling"
    /\ refs' = refs \cup {<<httpListener, targetGroup>>, <<targetGroup, httpListener>>}
    /\ props' = (<<httpListener, "targetGroups">> :> {targetGroup}) @@ props
    /\ ingress' = ingress \cup
           {addIngressRule(to[2], from[2], t.port) :
               t \in {u \in targets : u.tg = targetGroup},
               to \in {n \in sgOf : n[1] = wordpressService},
               from \in {n \in sgOf : n[1] = props[<<httpListener, "loadBalancer">>]}}
    /\ UNCHANGED <<constructs, sgOf, environment, secrets, targets, outputs>>
    /\ UNCHANGED <<deployVars, runVars>>

(* httpListener.addTargetGroups: the listener forwards to the target group,
   and the load balancer's security groups are allowed to reach the
   registered targets on their port. *)
AddTargetGroups ==
    /\ pc = "addTargetGroups"
    /\ pc' = "scaling"
    /\ refs' = refs \cup {<<httpListener, targetGroup>>}
    /\ props' = (<<httpListener, "targetGroups">> :> {targetGroup}) @@ props
    /\ ingress' = ingress \cup
           {addIngressRule(to[2], from[2], t.port) :
               t \in {u \in targets : u.tg = targetGroup},
               to \in {n \in sgOf : n[1] = wordpressService},
               from \in {n \in sgOf : n[1] = props[<<httpListener, "loadBalancer">>]}}
    /\ UNCHANGED <<constructs, sgOf, environment, secrets, targets, outputs>>
    /\ UNCHANGED <<deployVars, runVars>>

AutoScaleTaskCount ==
    /\ Declare("scaling", "cpuScaling", scaling, {wordpressService},
               [service |-> wordpressService, minCapacity |-> 2, maxCapacity |-> 10])
    /\ UNCHANGED <<ingress, sgOf, environment, secrets, targets, outputs>>
    /\ UNCHANGED <<deployVars, runVars>>

ScaleOnCpuUtilization ==
    /\ Declare("cpuScaling", "distribution", cpuScaling, {scaling},
               [target |-> scaling, targetUtilizationPercent |-> 70,
                scaleInCooldown |-> 60, scaleOutCooldown |-> 60])
    /\ UNCHANGED <<ingress, sgOf, environment, secrets, targets, outputs>>
    /\ UNCHANGED <<deployVars, runVars>>

(* The distribution serving HTTP and HTTPS alike *)
DeclareDistribution_AllowAll ==
    /\ Declare("distribution", "outputs", distribution, {alb},
               [origin |-> alb, originProtocolPolicy |-> HTTP_ONLY,
                cachePolicy |-> "CACHING_OPTIMIZED",
                viewerProtocolPolicy |-> "ALLOW_ALL",
                allowedMethods |-> ALLOW_ALL, originRequestPolicy |-> "ALL_VIEWER",
                compress |-> TRUE, priceClass |-> "PRICE_CLASS_100"])
    /\ UNCHANGED <<ingress, sgOf, environment, secrets, targets, outputs>>
    /\ UNCHANGED <<deployVars, runVars>>

DeclareDistribution ==
    /\ Declare("distribution", "outputs", distribution, {alb},
               [origin |-> alb, originProtocolPolicy |-> HTTP_ONLY,
                cachePolicy |-> "CACHING_OPTIMIZED",
                viewerProtocolPolicy |-> REDIRECT_TO_HTTPS,
                allowedMethods |-> ALLOW_ALL, originRequestPolicy |-> "ALL_VIEWER",
                compress |-> TRUE, priceClass |-> "PRICE_CLASS_100"])
    /\ UNCHANGED <<ingress, sgOf, environment, secrets, targets, outputs>>
    /\ UNCHANGED <<deployVars, runVars>>

(* new cdk.CfnOutput(this, name, { value }) *)
CfnOutput(at, next, name, value) ==
    /\ pc = at
    /\ pc' = next
    /\ outputs' = outputs \cup {<<name, value>>}
    /\ refs' = refs \cup {<<name, value[2]>>}
    /\ UNCHANGED <<constructs, props, ingress, sgOf, environment, secrets, targets>>
    /\ UNCHANGED <<deployVars, runVars>>

OutputLoadBalancerDNS ==
    CfnOutput("outputs", "output2", "LoadBalancerDNS", Attr(alb, "DNSName"))

OutputCloudFrontDomainName ==
    CfnOutput("output2", "output3", "CloudFrontDomainName",
              Attr(distribution, "DomainName"))

(* The database output bound to the load balancer's name *)
OutputDatabaseEndpoint_Alb ==
    CfnOutput("output3", "synthesized", "DatabaseEndpoint", Attr(alb, "DNSName"))

OutputDatabaseEndpoint ==
    CfnOutput("output3", "synthesized", "DatabaseEndpoint",
              Attr(dbInstance, "Endpoint.Address"))

Synthesize ==
    \/ DeclareVpc
    \/ DeclareAlbSg
    \/ DeclareEcsSg
    \/ DeclareDbSg
    \/ DeclareDbPassword
    \/ DeclareDbInstance
    \/ DeclareCluster
    \/ DeclareAlb
    \/ AddListener
    \/ DeclareTaskRole
    \/ DeclareTaskDefinition
    \/ AddContainer
    \/ AddPortMappings
    \/ DeclareService
    \/ DeclareTargetGroup
    \/ AttachToApplicationTargetGroup
    \/ AddTargetGroups
    \/ AutoScaleTaskCount
    \/ ScaleOnCpuUtilization
    \/ DeclareDistribution
    \/ OutputLoadBalancerDNS
    \/ OutputCloudFrontDomainName
    \/ OutputDatabaseEndpoint

----------------------------------------------------------------------------
(* Deployment: the orchestrator creates a resource once everything it
   references exists.  The secret string the provider generates is drawn
   from a bounded set; an endpoint name is a name of its own for each
   attribute of each resource. *)

Range(f) == {f[x] : x \in DOMAIN f}

(* The subnets of the VPC: one of each type per availability zone; private
   subnets have egress only when there is a NAT gateway. *)
Subnets(v) ==
    {<<t, az>> : t \in (IF props[<<v, "natGateways">>] > 0
                          THEN {PUBLIC, PRIVATE_WITH_EGRESS}
                          ELSE {PUBLIC, PRIVATE_ISOLATED}),
                 az \in 1..props[<<v, "maxAzs">>]}

VpcOf(c) ==
    IF <<c, "vpc">> \in DOMAIN props THEN props[<<c, "vpc">>]
    ELSE props[<<props[<<c, "cluster">>], "vpc">>]

(* vpcSubnets: { subnetType } where given; a load balancer is placed by
   internetFacing; other constructs have no subnet placement of their own
   (the VPC's NAT gateways sit in its public subnets). *)
SelectSubnets(c) ==
    IF <<c, "subnetType">> \in DOMAIN props
    THEN {s \in Subnets(VpcOf(c)) : s[1] = props[<<c, "subnetType">>]}
    ELSE IF <<c, "internetFacing">> \in DOMAIN props
    THEN {s \in Subnets(VpcOf(c)) :
             s[1] = PUBLIC <=> props[<<c, "internetFacing">>]}
    ELSE {}

Tokens == {e[2] : e \in environment \cup secrets \cup outputs}

ReferencedAttrs(r) == {t[3] : t \in {u \in Tokens : u[1] = "attr" /\ u[2] = r}}

(* What a token becomes in a field the provider stores in plaintext *)
Resolve(t) ==
    CASE t[1] = "lit" -> t
      [] t[1] = "attr" -> attrs[<<t[2], t[3]>>]
      [] t[1] = "secret" -> secretString[t[2]]

CreateResource(r, pw) ==
    /\ pc = "synthesized"
    /\ r \in constructs \ created
    /\ \A e \in refs : e[1] = r => e[2] \in created
    /\ created' = created \cup {r}
    /\ secretString' =
           IF <<r, "passwordLength">> \in DOMAIN props
           THEN (r :> <<"generated", pw>>) @@ secretString
           ELSE secretString
    /\ attrs' = [k \in {<<r, a>> : a \in ReferencedAttrs(r)} |->
                    <<"name", r, k[2]>>] @@ attrs
    /\ placement' =
           LET own == IF SelectSubnets(r) # {}
                      THEN (r :> SelectSubnets(r)) ELSE << >>
               nat == IF <<r, "natGateways">> \in DOMAIN props
                         /\ props[<<r, "natGateways">>] > 0
                      THEN (natGateway :>
                               {<<PUBLIC, az>> : az \in 1..props[<<r, "natGateways">>]})
                      ELSE << >>
           IN  own @@ nat @@ placement
    /\ plainEnv' =
           IF r = taskDefinition
           THEN {<<e[1], Resolve(e[2])>> : e \in environment}
           ELSE plainEnv
    /\ desiredCount' =
           IF r = wordpressService THEN props[<<r, "desiredCount">>]
           ELSE desiredCount
    /\ UNCHANGED <<pc, synthVars, exports, cache, net>>

(* The stack is complete: its outputs are exported. *)
ExportOutputs ==
    /\ pc = "synthesized"
    /\ created = constructs
    /\ pc' = "deployed"
    /\ exports' = [n \in {o[1] : o \in outputs} |->
                      Resolve((CHOOSE o \in outputs : o[1] = n)[2])]
    /\ UNCHANGED <<synthVars, created, secretString, attrs, placement, plainEnv>>
    /\ UNCHANGED runVars

Deploy ==
    \/ \E r \in constructs, pw \in Passwords : CreateResource(r, pw)
    \/ ExportOutputs

----------------------------------------------------------------------------
(* The deployed stack at work *)

Paths == {"/", "/wp-admin"}
Methods == {"GET", "POST", "DELETE"}
Protocols == {"http", "https"}
CpuReadings == {0, 35, 70, 85, 100}

DefaultPort(proto) == IF proto = "http" THEN 80 ELSE 443

client(i) == <<"internet", "client", i>>
edge == <<"internet", "cloudfront", 0>>
inVpc(c) == <<"vpc", c, 0>>

Sources ==
    {client(i) : i \in Clients} \cup {edge}
        \cup {inVpc(c) : c \in {m[1] : m \in sgOf}}

ProbedPorts == {r.port : r \in ingress} \cup {22}

SecurityGroups(c) == {m[2] : m \in {n \in sgOf : n[1] = c}}

(* A security group admits what one of its ingress rules names: any IPv4
   address, or the members of the peer security group. *)
Admits(dst, src, port) ==
    \E r \in ingress :
        /\ r.sg \in SecurityGroups(dst)
        /\ r.port = port
        /\ \/ r.peer = anyIpv4
           \/ src[1] = "vpc" /\ r.peer \in SecurityGroups(src[2])

(* Only what is placed in public subnets with a public address can be
   reached from outside the VPC. *)
PubliclyAddressed(c) ==
    /\ c \in DOMAIN placement
    /\ \E s \in placement[c] : s[1] = PUBLIC
    /\ \/ <<c, "internetFacing">> \in DOMAIN props /\ props[<<c, "internetFacing">>]
       \/ <<c, "assignPublicIp">> \in DOMAIN props /\ props[<<c, "assignPublicIp">>]

Routable(src, dst) == src[1] = "vpc" \/ PubliclyAddressed(dst)

(* A TCP connection attempt from src to a member of security groups. *)
Connect(src, dst, port) ==
    /\ pc = "deployed"
    /\ net = Idle
    /\ net' = [Idle EXCEPT !.kind = "tcp", !.src = src, !.entry = dst, !.at = dst,
                  !.port = port,
                  !.status = IF ~Admits(dst, src, port) THEN "denied"
                             ELSE IF ~Routable(src, dst) THEN "unroutable"
                             ELSE "connected"]
    /\ UNCHANGED <<pc, synthVars, deployVars, desiredCount, cache>>

(* A viewer sends a request to the distribution's domain name, to the load
   balancer's DNS name, or to the address of a task. *)
ViewerRequest(i, entry, proto, method, path) ==
    /\ pc = "deployed"
    /\ net = Idle
    /\ net' = [Idle EXCEPT !.kind = "http", !.src = client(i), !.entry = entry,
                  !.at = entry, !.scheme = proto, !.proto = proto,
                  !.port = DefaultPort(proto),
                  !.method = method, !.path = path, !.status = "inflight"]
    /\ UNCHANGED <<pc, synthVars, deployVars, desiredCount, cache>>

(* The distribution's default behaviour *)
DistributionHandle ==
    /\ net.kind = "http" /\ net.status = "inflight" /\ net.at = distribution
    /\ IF /\ net.proto = "http"
          /\ props[<<distribution, "viewerProtocolPolicy">>] = REDIRECT_TO_HTTPS
       THEN net' = [net EXCEPT !.status = "redirect"] /\ UNCHANGED cache
       ELSE IF net.method \notin props[<<distribution, "allowedMethods">>]
       THEN net' = [net EXCEPT !.status = "rejected"] /\ UNCHANGED cache
       ELSE IF net.method = "GET" /\ net.path \in cache
       THEN /\ net' = [net EXCEPT !.status = "served",
                                  !.hops = Append(@, distribution)]
            /\ UNCHANGED cache
       ELSE LET proto == IF props[<<distribution, "originProtocolPolicy">>]
                              = HTTP_ONLY
                         THEN "http" ELSE net.proto
            IN  /\ net' = [net EXCEPT !.src = edge,
                                      !.at = props[<<distribution, "origin">>],
                                      !.proto = proto,
                                      !.port = DefaultPort(proto),
                                      !.hops = Append(@, distribution)]
                /\ UNCHANGED cache
    /\ UNCHANGED <<pc, synthVars, deployVars, desiredCount>>

Listeners(lb, port) ==
    {l \in constructs :
        /\ <<l, "loadBalancer">> \in DOMAIN props
        /\ props[<<l, "loadBalancer">>] = lb
        /\ props[<<l, "port">>] = port}

ListenerTargets(l) ==
    IF <<l, "targetGroups">> \in DOMAIN props
    THEN {t \in targets : t.tg \in props[<<l, "targetGroups">>]}
    ELSE {}

(* The load balancer: security group, listener, target group *)
AlbHandle ==
    /\ net.kind = "http" /\ net.status = "inflight" /\ net.at = alb
    /\ IF ~Admits(alb, net.src, net.port)
       THEN net' = [net EXCEPT !.status = "dropped"]
       ELSE IF ~Routable(net.src, alb)
       THEN net' = [net EXCEPT !.status = "unroutable"]
       ELSE IF Listeners(alb, net.port) = {}
       THEN net' = [net EXCEPT !.status = "refused"]
       ELSE \E l \in Listeners(alb, net.port) :
               IF ListenerTargets(l) = {}
               THEN net' = [net EXCEPT !.status = "unavailable"]
               ELSE \E t \in ListenerTargets(l) :
                       net' = [net EXCEPT !.src = inVpc(alb),
                                          !.at = t.service,
                                          !.proto = "http",
                                          !.port = t.port,
                                          !.hops = Append(@, alb)]
    /\ UNCHANGED <<pc, synthVars, deployVars, desiredCount, cache>>

Listening(service, port) ==
    port = props[<<wordpressContainer, "containerPort">>]

(* A WordPress task: security group, then the container's mapped port *)
TaskHandle ==
    /\ net.kind = "http" /\ net.status = "inflight" /\ net.at = wordpressService
    /\ IF ~Admits(wordpressService, net.src, net.port)
       THEN net' = [net EXCEPT !.status = "dropped"] /\ UNCHANGED cache
       ELSE IF ~Routable(net.src, wordpressService)
       THEN net' = [net EXCEPT !.status = "unroutable"] /\ UNCHANGED cache
       ELSE IF ~Listening(wordpressService, net.port)
       THEN net' = [net EXCEPT !.status = "refused"] /\ UNCHANGED cache
       ELSE /\ net' = [net EXCEPT !.status = "served",
                                  !.hops = Append(@, wordpressService)]
            /\ cache' = IF net.method = "GET" /\ net.hops # <<>>
                           /\ Head(net.hops) = distribution
                        THEN cache \cup {net.path}
                        ELSE cache
    /\ UNCHANGED <<pc, synthVars, deployVars, desiredCount>>

(* The target group's health check of a registered target *)
HealthCheck(t) ==
    /\ pc = "deployed"
    /\ net = Idle
    /\ net' = [Idle EXCEPT !.kind = "health", !.src = inVpc(alb),
                  !.entry = t.service, !.at = t.service,
                  !.proto = "http", !.port = t.port, !.method = "GET",
                  !.path = props[<<t.tg, "healthCheckPath">>],
                  !.status = IF /\ Admits(t.service, inVpc(alb), t.port)
                                /\ Listening(t.service, t.port)
                             THEN "healthy" ELSE "unhealthy"]
    /\ UNCHANGED <<pc, synthVars, deployVars, desiredCount, cache>>

(* The response is delivered, or the connection attempt is over. *)
Complete ==
    /\ net.status \notin {"none", "inflight"}
    /\ net' = Idle
    /\ UNCHANGED <<pc, synthVars, deployVars, desiredCount, cache>>

Clamp(n, lo, hi) == IF n < lo THEN lo ELSE IF n > hi THEN hi ELSE n

(* The policy's task count applied without the capacity range *)
TargetTracking_Unclamped(cpu) ==
    /\ pc = "deployed"
    /\ LET target == props[<<cpuScaling, "targetUtilizationPercent">>]
       IN  desiredCount' = (desiredCount * cpu + target - 1) \div target
    /\ UNCHANGED <<pc, synthVars, deployVars, cache, net>>

(* One step of the CPU target-tracking policy: the task count that would
   bring utilization to the target, kept within the scalable target's
   capacity range. *)
TargetTracking(cpu) ==
    /\ pc = "deployed"
    /\ LET target == props[<<cpuScaling, "targetUtilizationPercent">>]
           want == (desiredCount * cpu + target - 1) \div target
       IN  desiredCount' = Clamp(want, props[<<scaling, "minCapacity">>],
                                 props[<<scaling, "maxCapacity">>])
    /\ UNCHANGED <<pc, synthVars, deployVars, cache, net>>

Run ==
    \/ \E src \in Sources, dst \in {m[1] : m \in sgOf}, port \in ProbedPorts :
          Connect(src, dst, port)
    \/ \E i \in Clients, entry \in {distribution, alb, wordpressService},
          proto \in Protocols,
          method \in Methods, path \in Paths :
          ViewerRequest(i, entry, proto, method, path)
    \/ DistributionHandle
    \/ AlbHandle
    \/ TaskHandle
    \/ \E t \in targets : HealthCheck(t)
    \/ Complete
    \/ \E cpu \in CpuReadings : TargetTracking(cpu)

Next ==
    \/ Synthesize
    \/ Deploy
    \/ Run

Spec == Init /\ [][Next]_vars

(* Deployment alone, with the orchestrator never idling while a resource
   can be created. *)
NextDeploy ==
    \/ Synthesize
    \/ Deploy

DeploySpec == Init /\ [][NextDeploy]_vars /\ WF_vars(NextDeploy)

----------------------------------------------------------------------------
(* Properties *)

Declared(c) == c \in constructs
Synthesized == pc \in {"synthesized", "deployed"}
Members(sg) == {m[1] : m \in {n \in sgOf : n[2] = sg}}

(* C1: security groups restrict traffic tier by tier.  Every ingress rule
   of the database security group is TCP 3306 from the ECS security group,
   every ingress rule of the ECS security group is TCP 80 from the ALB
   security group, and so a connection the database's security group does
   not deny comes from a member of the ECS security group on 3306, and one
   the tasks' security group does not deny comes from a member of the ALB
   security group on 80: never from an internet address, and never from
   the load balancer to the database. *)
C1_TierByTier ==
    /\ \A r \in ingress :
          /\ r.sg = dbSg => r.port = 3306 /\ r.peer = ecsSg
          /\ r.sg = ecsSg => r.port = 80 /\ r.peer = albSg
    /\ net.kind = "tcp" /\ net.status # "denied" =>
          /\ net.at = dbInstance =>
                /\ net.port = 3306
                /\ net.src[1] = "vpc" /\ net.src[2] \in Members(ecsSg)
                /\ net.src[2] # alb
          /\ net.at = wordpressService =>
                /\ net.port = 80
                /\ net.src[1] = "vpc" /\ net.src[2] \in Members(albSg)

(* An internet address tried the database on 3306 and was denied. *)
C1_Witness ==
    /\ net.kind = "tcp" /\ net.at = dbInstance /\ net.port = 3306
    /\ net.src = client(1) /\ net.status = "denied"

(* C2: ECS and RDS are deployed in private subnets.  The service and the
   database instance are placed in a non-empty set of subnets of type
   PRIVATE_WITH_EGRESS of the one VPC, the service assigns no public IP,
   and of all that is placed in subnets (the NAT gateway included) the
   only resource in public subnets that is internet-facing or assigns
   public addresses is the load balancer. *)
C2_PrivateSubnets ==
    /\ \A c \in {wordpressService, dbInstance} :
          /\ Declared(c) =>
                /\ props[<<c, "subnetType">>] = PRIVATE_WITH_EGRESS
                /\ VpcOf(c) = vpc
          /\ c \in created =>
                /\ placement[c] # {}
                /\ \A s \in placement[c] :
                      s[1] = PRIVATE_WITH_EGRESS /\ s \in Subnets(vpc)
    /\ Declared(wordpressService) => ~props[<<wordpressService, "assignPublicIp">>]
    /\ \A c \in DOMAIN placement : PubliclyAddressed(c) => c = alb
    /\ alb \in created => PubliclyAddressed(alb)

(* Everything is deployed, with the service and the database placed. *)
C2_Witness ==
    /\ pc = "deployed"
    /\ {wordpressService, dbInstance, alb, natGateway} \subseteq DOMAIN placement

(* C3: the database password is stored in Secrets Manager and nowhere
   else.  No plaintext environment entry of the task definition and no
   exported output holds the generated secret string, the environment map
   names no secret, WORDPRESS_DB_PASSWORD is given to the container only
   as a reference to the secret DBPassword, and the database instance takes
   its credentials from that same secret. *)
C3_PasswordOnlyInSecretsManager ==
    /\ \A e \in plainEnv : e[2] \notin Range(secretString)
    /\ \A n \in DOMAIN exports : exports[n] \notin Range(secretString)
    /\ \A e \in environment :
          e[2][1] # "secret" /\ e[1] # "WORDPRESS_DB_PASSWORD"
    /\ <<wordpressContainer, "image">> \in DOMAIN props =>
          /\ {e[2] : e \in {x \in secrets : x[1] = "WORDPRESS_DB_PASSWORD"}}
                = {fromSecret(dbPassword)}
          /\ props[<<dbInstance, "credentials">>] = fromSecret(dbPassword)

(* The stack is deployed, the secret string was generated, and the task
   definition's environment was stored. *)
C3_Witness ==
    /\ pc = "deployed"
    /\ secretString[dbPassword] = <<"generated", NumPasswords>>
    /\ plainEnv # {}

(* C4: HTTPS redirection.  A viewer request that reaches the distribution
   over plain HTTP is answered with a redirect: whatever its method and
   path, it is never forwarded to the origin and never served. *)
C4_HttpRedirected ==
    /\ Declared(distribution) =>
          props[<<distribution, "viewerProtocolPolicy">>] = REDIRECT_TO_HTTPS
    /\ net.kind = "http" /\ net.entry = distribution /\ net.scheme = "http" =>
          /\ net.at = distribution
          /\ net.hops = <<>>
          /\ net.status \in {"inflight", "redirect"}

(* A POST to /wp-admin over plain HTTP was redirected. *)
C4_Witness ==
    /\ net.kind = "http" /\ net.entry = distribution /\ net.scheme = "http"
    /\ net.method = "POST" /\ net.path = "/wp-admin"
    /\ net.status = "redirect"

Stack ==
    {vpc, albSg, ecsSg, dbSg, dbPassword, dbInstance, cluster, alb, httpListener,
     taskRole, taskDefinition, wordpressService, targetGroup, scaling, cpuScaling,
     distribution}

Compose(R) == {<<q[1][1], q[2][2]>> : q \in {x \in R \X R : x[1][2] = x[2][1]}}

RECURSIVE Closure(_)
Closure(R) == LET S == R \cup Compose(R) IN IF S = R THEN R ELSE Closure(S)

(* C5: the declared configuration produces a valid deployment template.
   Every reference points at a construct declared in the stack, no
   construct reaches itself through references, and an orchestrator that
   creates a resource only after everything it references exists, and does
   not idle while a resource can be created, eventually has created every
   resource of the stack. *)
C5_ValidTemplate ==
    /\ [](/\ \A e \in refs : e[2] \in constructs
          /\ \A e \in Closure(refs) : e[1] # e[2]
          /\ created \subseteq constructs
          /\ \A e \in refs : e[1] \in created => e[2] \in created)
    /\ <>(pc = "deployed" /\ created = Stack)

(* The whole stack has been created, the listener after the target group
   and the load balancer it references. *)
C5_Witness ==
    /\ pc = "deployed"
    /\ created = Stack
    /\ {<<httpListener, targetGroup>>, <<httpListener, alb>>} \subseteq refs

(* C6: after deployment the stack exports exactly three outputs,
   LoadBalancerDNS, CloudFrontDomainName and DatabaseEndpoint, holding the
   DNS name of the load balancer, the domain name of the distribution and
   the endpoint address of the database instance, and DatabaseEndpoint is
   the value of WORDPRESS_DB_HOST in the container's environment. *)
C6_Outputs ==
    /\ Synthesized => Cardinality(outputs) = 3
    /\ pc = "deployed" =>
          /\ DOMAIN exports =
                {"LoadBalancerDNS", "CloudFrontDomainName", "DatabaseEndpoint"}
          /\ exports["LoadBalancerDNS"] = <<"name", alb, "DNSName">>
          /\ exports["CloudFrontDomainName"] = <<"name", distribution, "DomainName">>
          /\ exports["DatabaseEndpoint"] = <<"name", dbInstance, "Endpoint.Address">>
          /\ {e[2] : e \in {x \in plainEnv : x[1] = "WORDPRESS_DB_HOST"}}
                = {exports["DatabaseEndpoint"]}
          /\ \A k \in DOMAIN attrs : k[1] \in created

(* The outputs have been exported. *)
C6_Witness ==
    /\ pc = "deployed"
    /\ "DatabaseEndpoint" \in DOMAIN exports
    /\ <<"WORDPRESS_DB_HOST", exports["DatabaseEndpoint"]>> \in plainEnv

(* C7, as claimed: every request path from an internet client towards a
   WordPress task goes through the distribution first, so no request is
   taken up by the load balancer without having passed the distribution. *)
C7_NoBypass ==
    net.kind = "http" /\ net.hops # <<>> => Head(net.hops) = distribution

(* C7, amended: every request a WordPress task serves came through the
   load balancer, a request that entered at the distribution passed the
   distribution first and then the load balancer, and a request sent
   straight to a task is dropped by the task's security group; the load
   balancer also takes requests straight from internet addresses on
   port 80, which then reach a task without passing the distribution. *)
C7_ThroughLoadBalancer ==
    net.kind = "http" =>
        /\ net.entry = wordpressService =>
              net.hops = <<>> /\ net.status \in {"inflight", "dropped"}
        /\ net.status = "served" =>
              \/ net.entry = distribution /\ net.hops = <<distribution>>
              \/ net.entry = distribution
                    /\ net.hops = <<distribution, alb, wordpressService>>
              \/ net.entry = alb /\ net.scheme = "http"
                    /\ net.hops = <<alb, wordpressService>>
        /\ net.at = wordpressService /\ net.entry # wordpressService
              /\ net.status = "inflight" =>
              /\ net.src = inVpc(alb)
              /\ net.hops = IF net.entry = distribution
                            THEN <<distribution, alb>> ELSE <<alb>>

(* A request sent straight to the load balancer was served by a task
   without passing the distribution. *)
C7_Witness ==
    /\ net.kind = "http" /\ net.entry = alb /\ net.status = "served"
    /\ net.hops = <<alb, wordpressService>>

(* C8: the port numbers along the request path are consistent.  The
   distribution's origin port, the listener port, the target group port,
   the container's mapped port and the port the ECS security group admits
   from the ALB security group are all 80, so a request the distribution
   forwards or the listener accepts is never dropped or refused further
   on, and every health check on path "/" finds its target healthy. *)
C8_PortsConsistent ==
    /\ Synthesized =>
          /\ props[<<distribution, "originProtocolPolicy">>] = HTTP_ONLY
          /\ props[<<httpListener, "port">>] = 80
          /\ props[<<targetGroup, "port">>] = 80
          /\ props[<<wordpressContainer, "containerPort">>] = 80
          /\ addIngressRule(ecsSg, albSg, 80) \in ingress
          /\ \A t \in targets : t.port = 80
    /\ net.kind = "http" /\ net.hops # <<>> => net.status \in {"inflight", "served"}
    /\ net.kind = "http" /\ net.hops # <<>> /\ net.status = "inflight" =>
          net.port = 80
    /\ net.kind = "health" =>
          net.status = "healthy" /\ net.path = "/" /\ net.port = 80

(* A health check on "/" found a task healthy on port 80. *)
C8_Witness ==
    /\ net.kind = "health" /\ net.status = "healthy"
    /\ net.path = "/" /\ net.port = 80

(* C9: the task count stays within the declared scaling bounds.  The
   initial desired count 2 lies in [minCapacity, maxCapacity] = [2, 10],
   the policy's target is 70, and once the service exists its desired
   count is never below 2 and never above 10, whatever steps the
   target-tracking policy takes. *)
C9_TaskCountWithinBounds ==
    /\ Synthesized =>
          /\ props[<<wordpressService, "desiredCount">>] = 2
          /\ props[<<scaling, "minCapacity">>] = 2
          /\ props[<<scaling, "maxCapacity">>] = 10
          /\ props[<<cpuScaling, "targetUtilizationPercent">>] = 70
    /\ wordpressService \in created => desiredCount >= 2 /\ desiredCount <= 10

(* Scale-out has taken the service to the maximum capacity. *)
C9_Witness ==
    /\ pc = "deployed"
    /\ desiredCount = 10
====
